---- MODULE Spec2Model ----
(***************************************************************************)
(* cbordump.py: read CBOR items from standard input and print each as one *)
(* line of JSON, turning byte strings that are direct mapping values into *)
(* text (when printable) or into a base64 field.                          *)
(*                                                                         *)
(* Python values are tagged records; text is a sequence of code points,   *)
(* a byte string a sequence of 0..255, a dict a sequence of entries in    *)
(* insertion order with distinct keys.                                     *)
(***************************************************************************)
EXTENDS Integers, Sequences, FiniteSets

VARIABLES
  pc,          \* control point: which call or which line of the main loop is next
  x,           \* the byte string maybestr is called on
  ret,         \* what the last call (maybestr, jsonable) returned or raised
  stream,      \* the items standard input holds, in order (a malformed one is BadItem)
  pos,         \* number of stream items consumed by cbor.cbor.load
  ob,          \* the main loop's variable ob
  stdout,      \* everything written to sys.stdout so far, as JSON tokens
  exc,         \* the exception that ended the process, Unset while there is none
  exitStatus   \* the process's exit status once it has ended, -1 while it runs

vars == <<pc, x, ret, stream, pos, ob, stdout, exc, exitStatus>>

---------------------------------------------------------------------------
(* Bounds of the checked instances *)

MaxLen == 3
MaxEntries == 2
MaxSeq == 2
MaxItems == 3

---------------------------------------------------------------------------
(* Python values *)

PyNone == [t |-> "null"]
VInt(n) == [t |-> "int", n |-> n]
VText(s) == [t |-> "text", s |-> s]
VBytes(b) == [t |-> "bytes", b |-> b]
VList(xs) == [t |-> "list", xs |-> xs]
VMap(es) == [t |-> "map", es |-> es]
Entry(k, v) == [k |-> k, v |-> v]
Raise(e) == [t |-> "raise", exc |-> e]
IsRaise(r) == r.t = "raise"
Unset == [t |-> "unset"]

SeqsUpTo(S, n) == UNION {[1..m -> S] : m \in 0..n}

---------------------------------------------------------------------------
(* bytes.decode(): strict UTF-8 *)

IsCont(b) == 128 <= b /\ b <= 191

\* number of continuation bytes the lead byte asks for, -1 for an invalid lead
Utf8Need(b0) ==
  IF b0 <= 127 THEN 0
  ELSE IF 194 <= b0 /\ b0 <= 223 THEN 1
  ELSE IF 224 <= b0 /\ b0 <= 239 THEN 2
  ELSE IF 240 <= b0 /\ b0 <= 244 THEN 3
  ELSE -1

\* the range the byte after the lead must lie in (overlongs, surrogates, > U+10FFFF)
Utf8SecondOk(b0, b1) ==
  IF b0 = 224 THEN 160 <= b1 /\ b1 <= 191
  ELSE IF b0 = 237 THEN 128 <= b1 /\ b1 <= 159
  ELSE IF b0 = 240 THEN 144 <= b1 /\ b1 <= 191
  ELSE IF b0 = 244 THEN 128 <= b1 /\ b1 <= 143
  ELSE IsCont(b1)

Utf8CodePoint(b, i, n) ==
  IF n = 0 THEN b[i]
  ELSE IF n = 1 THEN (b[i] % 32) * 64 + (b[i+1] % 64)
  ELSE IF n = 2 THEN (b[i] % 16) * 4096 + (b[i+1] % 64) * 64 + (b[i+2] % 64)
  ELSE (b[i] % 8) * 262144 + (b[i+1] % 64) * 4096 + (b[i+2] % 64) * 64 + (b[i+3] % 64)

RECURSIVE Utf8From(_, _, _)
Utf8From(b, i, acc) ==
  IF i > Len(b) THEN [ok |-> TRUE, cps |-> acc]
  ELSE LET n == Utf8Need(b[i]) IN
    IF n < 0 \/ i + n > Len(b) THEN [ok |-> FALSE, cps |-> <<>>]
    ELSE IF n >= 1 /\ ~Utf8SecondOk(b[i], b[i+1]) THEN [ok |-> FALSE, cps |-> <<>>]
    ELSE IF \E j \in 2..n : ~IsCont(b[i+j]) THEN [ok |-> FALSE, cps |-> <<>>]
    ELSE Utf8From(b, i + n + 1, Append(acc, Utf8CodePoint(b, i, n)))

\* x.decode(): ok with the code points, or not ok (UnicodeDecodeError)
Decode(b) == Utf8From(b, 1, <<>>)

---------------------------------------------------------------------------
(* maybestr *)

\* the mutation: the upper end of the range check excluded
InRangeStrict(c) == 32 <= c /\ c < 127

\* 0x20 <= c <= 0x7f
InRange(c) == 32 <= c /\ c <= 127

maybestr(v) ==
  LET d == Decode(v.b) IN
    IF ~d.ok THEN PyNone
    ELSE IF \E i \in 1..Len(d.cps) : ~InRange(d.cps[i]) THEN PyNone
    ELSE VText(d.cps)

\* Python truth value of what maybestr returns: None and "" are false
Truthy(r) == r.t = "text" /\ Len(r.s) > 0

---------------------------------------------------------------------------
(* base64.b64encode(v).decode(): standard alphabet, '=' padding *)

\* the mutation: the URL-safe alphabet ('-' and '_' for 62 and 63)
B64CharUrlSafe(i) ==
  IF i < 26 THEN 65 + i
  ELSE IF i < 52 THEN 97 + (i - 26)
  ELSE IF i < 62 THEN 48 + (i - 52)
  ELSE IF i = 62 THEN 45
  ELSE 95

\* code point of the i-th character of the standard base64 alphabet
B64Char(i) ==
  IF i < 26 THEN 65 + i
  ELSE IF i < 52 THEN 97 + (i - 26)
  ELSE IF i < 62 THEN 48 + (i - 52)
  ELSE IF i = 62 THEN 43
  ELSE 47

B64Pad == <<61>>

RECURSIVE B64From(_, _)
B64From(b, i) ==
  LET left == Len(b) - i + 1 IN
    IF left <= 0 THEN <<>>
    ELSE IF left = 1 THEN
      <<B64Char(b[i] \div 4), B64Char((b[i] % 4) * 16)>> \o B64Pad \o B64Pad
    ELSE IF left = 2 THEN
      <<B64Char(b[i] \div 4),
        B64Char((b[i] % 4) * 16 + (b[i+1] \div 16)),
        B64Char((b[i+1] % 16) * 4)>> \o B64Pad
    ELSE
      <<B64Char(b[i] \div 4),
        B64Char((b[i] % 4) * 16 + (b[i+1] \div 16)),
        B64Char((b[i+1] % 16) * 4 + (b[i+2] \div 64)),
        B64Char(b[i+2] % 64)>> \o B64From(b, i + 3)

b64encode(b) == B64From(b, 1)

---------------------------------------------------------------------------
(* jsonable *)

\* the text '_b64'
B64Suffix == <<95, 98, 54, 52>>

\* the mutation: a key that is not text is dropped in favour of the bare suffix
\* instead of raising
AddSuffixAny(k) ==
  IF k.t = "text" THEN VText(k.s \o B64Suffix) ELSE VText(B64Suffix)

\* k + '_b64': str + str concatenates, any other left operand raises TypeError
AddSuffix(k) ==
  IF k.t = "text" THEN VText(k.s \o B64Suffix) ELSE Raise("TypeError")

HasKey(out, k) == \E i \in 1..Len(out) : out[i].k = k

\* the mutation: a key already present keeps its old value
SetItemKeepFirst(out, k, v) ==
  IF HasKey(out, k) THEN out ELSE Append(out, Entry(k, v))

\* out[k] = v on a dict: a key already present keeps its place and takes the
\* new value, a new key goes last
SetItem(out, k, v) ==
  IF HasKey(out, k)
  THEN [i \in 1..Len(out) |-> IF out[i].k = k THEN Entry(k, v) ELSE out[i]]
  ELSE Append(out, Entry(k, v))

RECURSIVE jsonable(_)
RECURSIVE ForItems(_, _, _)

\* `if xs:` on what maybestr returned
TakesOwnKey(xs) == Truthy(xs)

\* the mutation: the value of a non-bytes entry stored as decoded, no recursion
StoreOtherRaw(out, k, v) == VMap(SetItem(out, k, v))

\* else: out[k] = jsonable(v)
StoreOther(out, k, v) ==
  LET r == jsonable(v) IN IF IsRaise(r) THEN r ELSE VMap(SetItem(out, k, r))

\* out[k + '_b64'] = base64.b64encode(v).decode()
StoreB64(out, k, v) ==
  LET nk == AddSuffix(k) IN
    IF IsRaise(nk) THEN nk ELSE VMap(SetItem(out, nk, VText(b64encode(v.b))))

\* the body of `for k, v in x.items()`, out being the entries of the dict out:
\* the dict after this entry, or the exception the entry raised
LoopBody(out, k, v) ==
  IF v.t = "bytes" THEN
    LET xs == maybestr(v) IN
      IF TakesOwnKey(xs) THEN VMap(SetItem(out, k, xs)) ELSE StoreB64(out, k, v)
  ELSE StoreOther(out, k, v)

ForItems(es, i, out) ==
  IF i > Len(es) THEN VMap(out)
  ELSE LET r == LoopBody(out, es[i].k, es[i].v) IN
    IF IsRaise(r) THEN r ELSE ForItems(es, i + 1, r.es)

RECURSIVE jsonableDeep(_)
\* the mutation: sequences are walked too
jsonableDeep(v) ==
  IF v.t = "map" THEN ForItems(v.es, 1, <<>>)
  ELSE IF v.t = "list" THEN
    VList([i \in 1..Len(v.xs) |->
             IF v.xs[i].t = "bytes"
             THEN VText(b64encode(v.xs[i].b))
             ELSE jsonableDeep(v.xs[i])])
  ELSE v

jsonable(v) ==
  IF v.t = "map" THEN ForItems(v.es, 1, <<>>) ELSE v

---------------------------------------------------------------------------
(* json.dump(obj, sys.stdout): the text is written piece by piece while the  *)
(* value is walked, so an object that cannot be serialized raises TypeError *)
(* after the text before it has been written.                               *)

Tok(s) == [tok |-> s]
Scalar(v) == [tok |-> "scalar", v |-> v]
NL == Tok("\n")

Digit(d) == 48 + d

\* str(n) of an int: a '-' sign for a negative n, then the decimal digits
RECURSIVE Digits(_)
Digits(n) ==
  IF n < 0 THEN <<45>> \o Digits(-n)
  ELSE IF n < 10 THEN <<Digit(n)>>
  ELSE Append(Digits(n \div 10), Digit(n % 10))

\* a dict key as JSON writes it: str as is, int as its decimal text, None as
\* 'null'; any other key type raises TypeError
KeyText(k) ==
  IF k.t = "text" THEN k
  ELSE IF k.t = "int" THEN VText(Digits(k.n))
  ELSE IF k.t = "null" THEN VText(<<110, 117, 108, 108>>)
  ELSE Raise("TypeError")

RECURSIVE Encode(_)
RECURSIVE EncodeList(_, _, _)
RECURSIVE EncodeDict(_, _, _)

EncodeList(xs, i, acc) ==
  IF i > Len(xs) THEN [ok |-> TRUE, toks |-> Append(acc, Tok("]"))]
  ELSE LET sep == IF i > 1 THEN <<Tok(",")>> ELSE <<>>
           e == Encode(xs[i])
       IN IF e.ok THEN EncodeList(xs, i + 1, acc \o sep \o e.toks)
          ELSE [ok |-> FALSE, toks |-> acc \o sep \o e.toks]

EncodeDict(es, i, acc) ==
  IF i > Len(es) THEN [ok |-> TRUE, toks |-> Append(acc, Tok("}"))]
  ELSE LET kt == KeyText(es[i].k) IN
    IF IsRaise(kt) THEN [ok |-> FALSE, toks |-> acc]
    ELSE LET sep == IF i > 1 THEN <<Tok(",")>> ELSE <<>>
             e == Encode(es[i].v)
             pre == acc \o sep \o <<Scalar(kt), Tok(":")>>
         IN IF e.ok THEN EncodeDict(es, i + 1, pre \o e.toks)
            ELSE [ok |-> FALSE, toks |-> pre \o e.toks]

\* the tokens json.dump writes for v, and whether it got to the end (ok) or
\* raised TypeError after writing them
Encode(v) ==
  IF v.t = "bytes" THEN [ok |-> FALSE, toks |-> <<>>]
  ELSE IF v.t = "list" THEN EncodeList(v.xs, 1, <<Tok("[")>>)
  ELSE IF v.t = "map" THEN EncodeDict(v.es, 1, <<Tok("{")>>)
  ELSE [ok |-> TRUE, toks |-> <<Scalar(v)>>]

---------------------------------------------------------------------------
(* Inputs *)

ByteAlphabet == {0, 31, 32, 65, 127, 128, 130, 169, 172, 195, 226, 255}
ByteStrings == SeqsUpTo(ByteAlphabet, MaxLen)

KeyA == VText(<<97>>)
KeyAB64 == VText(<<97>> \o B64Suffix)
Key1 == VInt(1)
KeyMinus42 == VInt(-42)
Keys == {KeyA, KeyAB64, Key1}

Alice == <<65, 108, 105, 99, 101>>
Blob == <<255, 254, 0>>
JBytes == {<<>>, Alice, <<255>>, <<195, 169>>, Blob}

Leaf == {PyNone, VInt(42), VText(<<104, 105>>)} \cup {VBytes(b) : b \in JBytes}

ListsOver(S, n) == {VList(xs) : xs \in SeqsUpTo(S, n)}
MapsOver(K, S, n) ==
  {VMap(es) : es \in {s \in SeqsUpTo([k : K, v : S], n) :
                        \A i, j \in 1..Len(s) : i # j => s[i].k # s[j].k}}

InnerLeaf == {VBytes(<<255>>), VBytes(Alice)}
Inner1 == ListsOver(InnerLeaf, 1) \cup MapsOver(Keys, InnerLeaf, 1)
Wrapped ==
  {VMap(<<Entry(k, VBytes(<<255>>))>>) : k \in {KeyA, Key1}}
    \cup {VMap(<<Entry(KeyA, VBytes(Alice))>>)}
Inner2 == {VList(<<n>>) : n \in Wrapped} \cup {VMap(<<Entry(KeyA, n)>>) : n \in Wrapped}
Elements == Leaf \cup Inner1 \cup Inner2

\* the decoded items a one-item stream holds
Items == Leaf \cup ListsOver(Elements, MaxSeq) \cup MapsOver(Keys, Elements, MaxEntries)

\* an item the decoder fails on (malformed or truncated)
BadItem == [t |-> "malformed"]

\* the items longer streams are made of
FewItems ==
  {VInt(42),
   VMap(<<Entry(KeyA, VInt(1))>>),
   VMap(<<Entry(KeyA, VBytes(<<255>>))>>),
   VMap(<<Entry(Key1, VBytes(<<255>>))>>),
   VMap(<<Entry(KeyMinus42, VBytes(Alice))>>),
   VBytes(<<255>>),
   VList(<<VInt(1), VBytes(<<255>>)>>),
   BadItem}

Streams == {<<v>> : v \in Items} \cup SeqsUpTo(FewItems, MaxItems)

---------------------------------------------------------------------------
(* The main loop *)

Init ==
  /\ pc = "load"
  /\ stream \in Streams
  /\ pos = 0
  /\ ob = Unset
  /\ ret = Unset
  /\ x = Unset
  /\ stdout = <<>>
  /\ exc = Unset
  /\ exitStatus = -1

\* an uncaught exception: traceback on stderr, stdout flushed, exit status 1
Die(e) ==
  /\ pc' = "exited"
  /\ exc' = e
  /\ exitStatus' = 1

\* the mutation: a malformed item is skipped and the loop goes on
LoadSkipBad ==
  /\ pc = "load"
  /\ IF pos = Len(stream)
     THEN Die(Raise("EOFError")) /\ UNCHANGED <<pos, ob>>
     ELSE /\ pos' = pos + 1
          /\ IF stream[pos + 1] = BadItem
             THEN UNCHANGED <<pc, ob, exc, exitStatus>>
             ELSE pc' = "transform" /\ ob' = stream[pos + 1]
                  /\ UNCHANGED <<exc, exitStatus>>
  /\ UNCHANGED <<x, ret, stream, stdout>>

\* ob = cbor.cbor.load(bstdin): the next item, or the decoder's exception when
\* the item is malformed or the stream has ended (EOFError); the loop has no
\* handler and no break, so either exception ends the process
Load ==
  /\ pc = "load"
  /\ IF pos = Len(stream)
     THEN Die(Raise("EOFError")) /\ UNCHANGED <<pos, ob>>
     ELSE IF stream[pos + 1] = BadItem
     THEN Die(Raise("DecodeError")) /\ UNCHANGED <<pos, ob>>
     ELSE /\ pos' = pos + 1
          /\ ob' = stream[pos + 1]
          /\ pc' = "transform"
          /\ UNCHANGED <<exc, exitStatus>>
  /\ UNCHANGED <<x, ret, stream, stdout>>

\* jsonable(ob), the argument of json.dump, evaluated before json.dump runs
Transform ==
  /\ pc = "transform"
  /\ ret' = jsonable(ob)
  /\ IF IsRaise(ret')
     THEN Die(ret')
     ELSE pc' = "dump" /\ UNCHANGED <<exc, exitStatus>>
  /\ UNCHANGED <<x, stream, pos, ob, stdout>>

\* json.dump(<transformed>, sys.stdout)
Dump ==
  /\ pc = "dump"
  /\ LET e == Encode(ret) IN
       /\ stdout' = stdout \o e.toks
       /\ IF e.ok
          THEN pc' = "newline" /\ UNCHANGED <<exc, exitStatus>>
          ELSE Die(Raise("TypeError"))
  /\ UNCHANGED <<x, ret, stream, pos, ob>>

\* sys.stdout.write('\n')
WriteNewline ==
  /\ pc = "newline"
  /\ stdout' = Append(stdout, NL)
  /\ pc' = "load"
  /\ UNCHANGED <<x, ret, stream, pos, ob, exc, exitStatus>>

Next == Load \/ Transform \/ Dump \/ WriteNewline

Spec == Init /\ [][Next]_vars

---------------------------------------------------------------------------
(* Calls of maybestr on every byte string of the instance *)

InitStr ==
  /\ pc = "call_maybestr"
  /\ x \in {VBytes(b) : b \in ByteStrings}
  /\ ret = Unset
  /\ stream = <<>> /\ pos = 0 /\ ob = Unset /\ stdout = <<>>
  /\ exc = Unset /\ exitStatus = -1

CallMaybestr ==
  /\ pc = "call_maybestr"
  /\ ret' = maybestr(x)
  /\ pc' = "returned"
  /\ UNCHANGED <<x, stream, pos, ob, stdout, exc, exitStatus>>

NextStr == CallMaybestr

SpecStr == InitStr /\ [][NextStr]_vars

---------------------------------------------------------------------------
(* Properties *)

\* every byte lies in [0x20, 0x7F]; true of the empty byte string
Printable(b) == \A i \in 1..Len(b) : 32 <= b[i] /\ b[i] <= 127

\* the value is a byte string that jsonable stores under key + '_b64'
B64Path(v) == v.t = "bytes" /\ (Len(v.b) = 0 \/ ~Printable(v.b))

Suffixed(k) == VText(k.s \o B64Suffix)

HasEntry(m, k, v) == \E i \in 1..Len(m.es) : m.es[i] = Entry(k, v)
KeyIn(m, k) == \E i \in 1..Len(m.es) : m.es[i].k = k
KeyCount(m, k) == Cardinality({i \in 1..Len(m.es) : m.es[i].k = k})

\* jsonable(ob) has just returned ret / has just raised ret
JsonableReturned == pc = "dump"
JsonableRaised == pc = "exited" /\ IsRaise(ret) /\ exc = ret

\* value of a base64 character, -1 for a character outside the standard alphabet
B64Val(c) ==
  IF 65 <= c /\ c <= 90 THEN c - 65
  ELSE IF 97 <= c /\ c <= 122 THEN c - 71
  ELSE IF 48 <= c /\ c <= 57 THEN c + 4
  ELSE IF c = 43 THEN 62
  ELSE IF c = 47 THEN 63
  ELSE -1

\* standard base64 decoding of the text s; <<-1>> when s is not base64
RECURSIVE B64Decode(_)
B64Decode(s) ==
  IF Len(s) = 0 THEN <<>>
  ELSE IF Len(s) < 4 THEN <<-1>>
  ELSE LET a == B64Val(s[1])
           b == B64Val(s[2])
           c == B64Val(s[3])
           d == B64Val(s[4])
           rest == SubSeq(s, 5, Len(s))
       IN IF a < 0 \/ b < 0 THEN <<-1>>
          ELSE IF s[3] = 61 /\ s[4] = 61 THEN
            IF Len(rest) = 0 /\ b % 16 = 0 THEN <<a * 4 + b \div 16>> ELSE <<-1>>
          ELSE IF c < 0 THEN <<-1>>
          ELSE IF s[4] = 61 THEN
            IF Len(rest) = 0 /\ c % 4 = 0
            THEN <<a * 4 + b \div 16, (b % 16) * 16 + c \div 4>>
            ELSE <<-1>>
          ELSE IF d < 0 THEN <<-1>>
          ELSE LET r == B64Decode(rest) IN
            IF r = <<-1>> THEN r
            ELSE <<a * 4 + b \div 16, (b % 16) * 16 + c \div 4, (c % 4) * 64 + d>> \o r

\* the output holds key + '_b64' bound to text that base64-decodes to b
HasB64Of(m, k, b) ==
  \E i \in 1..Len(m.es) :
    /\ m.es[i].k = Suffixed(k)
    /\ m.es[i].v.t = "text"
    /\ B64Decode(m.es[i].v.s) = b

\* C1: every entry (k, v) whose v is a byte string of bytes in [0x20, 0x7F]
\* only (the empty one included) appears in the output mapping as (k, text of
\* v), and the output has no key k + '_b64' made from that entry.
C1_PrintableKeptUnderOwnKey ==
  JsonableReturned /\ ob.t = "map" =>
    \A i \in 1..Len(ob.es) :
      LET k == ob.es[i].k
          v == ob.es[i].v
      IN v.t = "bytes" /\ Printable(v.b) =>
           /\ HasEntry(ret, k, VText(v.b))
           /\ k.t = "text" /\ KeyIn(ret, Suffixed(k)) =>
                \E j \in 1..Len(ob.es) : j # i /\ ob.es[j].k = Suffixed(k)

\* C2: every entry (k, v) whose v is a byte string with a byte outside
\* [0x20, 0x7F] appears in the output mapping as (k + '_b64', base64 of v),
\* decoding back to v, whatever the other entries are, and k is not bound to
\* the raw bytes.
C2_NonPrintableAsBase64 ==
  JsonableReturned /\ ob.t = "map" =>
    \A i \in 1..Len(ob.es) :
      LET k == ob.es[i].k
          v == ob.es[i].v
      IN v.t = "bytes" /\ ~Printable(v.b) =>
           /\ k.t = "text"
           /\ HasB64Of(ret, k, v.b)
           /\ ~HasEntry(ret, k, v)

\* an entry after the i-th has the literal key k_i + '_b64' and is stored under
\* that key of its own
OverwrittenB64(m, i) ==
  \E j \in (i+1)..Len(m.es) :
    m.es[j].k = Suffixed(m.es[i].k) /\ ~B64Path(m.es[j].v)

\* C2, amended: when jsonable returns, k is never bound to the raw bytes, and
\* the output holds (k + '_b64', base64 of v), decoding back to v, unless a
\* later entry with the literal key k + '_b64' is stored under its own key.
C2_NonPrintableAsBase64UnlessOverwritten ==
  JsonableReturned /\ ob.t = "map" =>
    \A i \in 1..Len(ob.es) :
      LET k == ob.es[i].k
          v == ob.es[i].v
      IN v.t = "bytes" /\ ~Printable(v.b) =>
           /\ k.t = "text"
           /\ ~HasEntry(ret, k, v)
           /\ ~OverwrittenB64(ob, i) => HasB64Of(ret, k, v.b)

\* scenario 2: {"blob": b"\xff\xfe\x00"} gives {"blob_b64": "//4A"}
C2_Witness ==
  /\ JsonableReturned
  /\ ob = VMap(<<Entry(KeyA, VBytes(Blob))>>)
  /\ ret = VMap(<<Entry(KeyAB64, VText(<<47, 47, 52, 65>>))>>)

\* C3: jsonable returns every value that is not a mapping unchanged, whatever
\* a sequence holds, and does not raise on it.
C3_NonMappingUnchanged ==
  /\ JsonableReturned /\ ob.t # "map" => ret = ob
  /\ JsonableRaised => ob.t = "map"

\* a sequence holding a byte string and a mapping came back as decoded
C3_Witness ==
  /\ JsonableReturned
  /\ ob = VList(<<VBytes(<<255>>), VMap(<<Entry(KeyA, VBytes(<<255>>))>>)>>)
  /\ ret = ob


\* what jsonable binds in the output for an input entry that it stores
OutValue(v) ==
  IF v.t = "bytes"
  THEN IF B64Path(v) THEN VText(b64encode(v.b)) ELSE VText(v.b)
  ELSE jsonable(v)

\* stdout after the first n items of s were each printed as one full line
RECURSIVE LinesOf(_, _)
LinesOf(s, n) ==
  IF n = 0 THEN <<>>
  ELSE LinesOf(s, n - 1) \o Encode(jsonable(s[n])).toks \o <<NL>>

\* each of the first n items of s is well formed and can be transformed and
\* serialized to the end
AllPrintedWhole(s, n) ==
  \A i \in 1..n :
    /\ s[i] # BadItem
    /\ ~IsRaise(jsonable(s[i]))
    /\ Encode(jsonable(s[i])).ok

\* C4: when the stream ends between items (an empty stream included), the
\* process ends with exit status 0, one line written per item and nothing else.
C4_CleanEndExitsZero ==
  pc = "exited" /\ exc = Raise("EOFError") =>
    /\ exitStatus = 0
    /\ stdout = LinesOf(stream, Len(stream))

\* C5: between iterations and at the end of the process, stdout is the full
\* lines of the first items of the input, in order, each once: no partial
\* line, also for an item whose transformed value still holds raw bytes.
C5_OnlyCompleteLines ==
  pc \in {"load", "exited"} =>
    \E n \in 0..pos : AllPrintedWhole(stream, n) /\ stdout = LinesOf(stream, n)

\* C6: a decoder failure is fatal: the process ends with a non-zero status,
\* nothing is written for the failed item, the lines of the earlier items stay
\* as written, and no item at or after a malformed one is ever decoded.
C6_DecodeFailureFatal ==
  /\ \A i \in 1..pos : stream[i] # BadItem
  /\ pc = "load" => exc = Unset /\ exitStatus = -1
  /\ exc = Raise("DecodeError") =>
       /\ pc = "exited"
       /\ exitStatus > 0
       /\ pos < Len(stream) /\ stream[pos + 1] = BadItem
       /\ AllPrintedWhole(stream, pos)
       /\ stdout = LinesOf(stream, pos)

\* 42, a malformed item, 42: one line, then the process is over
C6_Witness ==
  /\ stream = <<VInt(42), BadItem, VInt(42)>>
  /\ pc = "exited"
  /\ exc = Raise("DecodeError")
  /\ exitStatus = 1
  /\ pos = 1
  /\ stdout = <<Scalar(VInt(42)), NL>>

\* no byte string is the direct value of a mapping reached from v through
\* mapping values alone
RECURSIVE NoRawBytesUnderMaps(_)
NoRawBytesUnderMaps(v) ==
  v.t = "map" =>
    \A i \in 1..Len(v.es) :
      v.es[i].v.t # "bytes" /\ NoRawBytesUnderMaps(v.es[i].v)

\* C8: an entry (k, v) whose v is a mapping appears in the output as
\* (k, jsonable(v)), so byte strings under mappings at any depth are converted;
\* an entry whose v is a sequence appears as (k, v), as decoded.
C8_RecursionThroughMappingsOnly ==
  JsonableReturned /\ ob.t = "map" =>
    /\ NoRawBytesUnderMaps(ret)
    /\ \A i \in 1..Len(ob.es) :
         LET k == ob.es[i].k
             v == ob.es[i].v
         IN /\ v.t = "map" => HasEntry(ret, k, jsonable(v))
            /\ v.t = "list" => HasEntry(ret, k, v)

\* an entry after the i-th is a byte string on the base64 path whose key plus
\* '_b64' is the i-th key
OverwrittenOwn(m, i) ==
  \E j \in (i+1)..Len(m.es) :
    /\ m.es[j].k.t = "text"
    /\ Suffixed(m.es[j].k) = m.es[i].k
    /\ B64Path(m.es[j].v)

\* C8, amended: as C8 when jsonable returns, for every entry that no later
\* colliding base64 entry overwrites.
C8_RecursionThroughMappingsUnlessOverwritten ==
  JsonableReturned /\ ob.t = "map" =>
    /\ NoRawBytesUnderMaps(ret)
    /\ \A i \in 1..Len(ob.es) :
         LET k == ob.es[i].k
             v == ob.es[i].v
         IN ~OverwrittenOwn(ob, i) =>
              /\ v.t = "map" => HasEntry(ret, k, jsonable(v))
              /\ v.t = "list" => HasEntry(ret, k, v)

\* bytes three mappings deep were converted, a mapping inside a sequence was not
C8_Witness ==
  /\ JsonableReturned
  /\ ob = VMap(<<Entry(KeyA, VMap(<<Entry(KeyA, VMap(<<Entry(KeyA, VBytes(<<255>>))>>))>>)),
                 Entry(KeyAB64, VList(<<VMap(<<Entry(KeyA, VBytes(<<255>>))>>)>>))>>)
  /\ ret = VMap(<<Entry(KeyA, VMap(<<Entry(KeyA,
                     VMap(<<Entry(KeyAB64, VText(<<47, 119, 61, 61>>))>>))>>)),
                  Entry(KeyAB64, VList(<<VMap(<<Entry(KeyA, VBytes(<<255>>))>>)>>))>>)

\* some entry reached from v through mapping values alone has a key that is
\* not text and a byte string on the base64 path
RECURSIVE Offending(_)
Offending(v) ==
  /\ v.t = "map"
  /\ \E i \in 1..Len(v.es) :
       \/ v.es[i].k.t # "text" /\ B64Path(v.es[i].v)
       \/ Offending(v.es[i].v)

\* entries i and j of m: a base64-path byte string under a text key k, and the
\* literal key k + '_b64'
Collide(m, i, j) ==
  /\ i # j
  /\ m.es[i].k.t = "text"
  /\ B64Path(m.es[i].v)
  /\ m.es[j].k = Suffixed(m.es[i].k)

Later(i, j) == IF i > j THEN i ELSE j

\* C9: when such a pair exists the output has one entry under k + '_b64',
\* holding what the later of the two entries stores; the output never has more
\* entries than the input and has fewer exactly when such a pair exists.
C9_LastWriteWins ==
  JsonableReturned /\ ob.t = "map" =>
    /\ \A i, j \in 1..Len(ob.es) :
         Collide(ob, i, j) =>
           /\ KeyCount(ret, ob.es[j].k) = 1
           /\ HasEntry(ret, ob.es[j].k, OutValue(ob.es[Later(i, j)].v))
    /\ Len(ret.es) <= Len(ob.es)
    /\ Len(ret.es) < Len(ob.es) <=>
         \E i, j \in 1..Len(ob.es) : Collide(ob, i, j)

\* C9, amended: the pair collides only when the entry with the literal key
\* k + '_b64' is stored under its own key (its value is not a byte string on
\* the base64 path); then the later of the two wins. jsonable raises only on
\* an entry whose key is not text and whose byte string is on the base64 path.
C9_LastWriteWinsOwnKey ==
  /\ JsonableReturned /\ ob.t = "map" =>
       /\ \A i, j \in 1..Len(ob.es) :
            Collide(ob, i, j) /\ ~B64Path(ob.es[j].v) =>
              /\ KeyCount(ret, ob.es[j].k) = 1
              /\ HasEntry(ret, ob.es[j].k, OutValue(ob.es[Later(i, j)].v))
       /\ \A k \in Keys : KeyCount(ret, k) <= 1
       /\ Len(ret.es) <= Len(ob.es)
       /\ Len(ret.es) < Len(ob.es) <=>
            \E i, j \in 1..Len(ob.es) :
              Collide(ob, i, j) /\ ~B64Path(ob.es[j].v)
  /\ JsonableRaised => Offending(ob)

\* {"a": b"\xff", "a_b64": 42} came out as {"a_b64": 42}
C9_Witness ==
  /\ JsonableReturned
  /\ ob = VMap(<<Entry(KeyA, VBytes(<<255>>)), Entry(KeyAB64, VInt(42))>>)
  /\ ret = VMap(<<Entry(KeyAB64, VInt(42))>>)

NumLines(out) == Cardinality({i \in 1..Len(out) : out[i] = NL})

\* C10: jsonable raises exactly on a mapping with an entry whose key is not
\* text and whose value is a byte string on the base64 path; the main loop
\* then ends with an error and no line for the item; every other entry with a
\* key that is not text is stored under that very key.
C10_NonTextKey ==
  /\ (JsonableReturned \/ JsonableRaised) =>
       (IsRaise(ret) <=> Offending(ob))
  /\ JsonableRaised =>
       /\ exitStatus > 0
       /\ NumLines(stdout) = pos - 1
       /\ stdout = LinesOf(stream, pos - 1)
  /\ JsonableReturned /\ ob.t = "map" =>
       \A i \in 1..Len(ob.es) :
         ob.es[i].k.t # "text" =>
           HasEntry(ret, ob.es[i].k, OutValue(ob.es[i].v))

\* 42 was printed, then {1: b"\xff"} ended the process without a line
C10_Witness ==
  /\ stream = <<VInt(42), VMap(<<Entry(Key1, VBytes(<<255>>))>>)>>
  /\ JsonableRaised
  /\ ret = Raise("TypeError")
  /\ exitStatus = 1
  /\ stdout = <<Scalar(VInt(42)), NL>>

\* C7: maybestr never raises; it returns the text of x when every byte of x is
\* in [0x20, 0x7F] (the only byte strings that decode to code points in that
\* range), the empty text for the empty byte string, and None otherwise.
C7_MaybestrTotal ==
  pc = "returned" =>
    /\ ~IsRaise(ret)
    /\ IF \A i \in 1..Len(x.b) : 32 <= x.b[i] /\ x.b[i] <= 127
       THEN ret = VText(x.b)
       ELSE ret = PyNone

\* the boundary byte 0x7F was accepted
C7_Witness ==
  pc = "returned" /\ x = VBytes(<<32, 127>>) /\ ret = VText(<<32, 127>>)

====
